---- MODULE Spec2Model ----
(***************************************************************************)
(* Model of the OpenRouter MCP adapter (tsilva/mcp-openrouter).            *)
(*                                                                         *)
(* The transport OpenRouterClient._request (mcp_openrouter/client.py) is   *)
(* a retry loop: one action per way an iteration of the loop can go.  The  *)
(* remote service is the environment: each HTTP request is answered by a   *)
(* response (status, body), a timeout or a connection failure chosen from  *)
(* small sets.  The tools of mcp_openrouter/server.py drive the transport  *)
(* through the client's operations.                                        *)
(*                                                                         *)
(* `trace` and `outcomes` are history variables: the HTTP requests and the *)
(* sleeps of the call in progress in the order they happen, and the kind   *)
(* of outcome each attempt had.                                            *)
(***************************************************************************)
EXTENDS Integers, Sequences, FiniteSets, TLC

VARIABLES pc, method, max_retries, attempt, resp, prev, result, trace,
          outcomes, caller, tool, toolResult, fs, endpoint, payload, opResult

vars == <<pc, method, max_retries, attempt, resp, prev, result, trace,
          outcomes, caller, tool, toolResult, fs, endpoint, payload, opResult>>

\* what an operation of the client hands to _request and gets to return
opvars == <<endpoint, payload, opResult>>

(* ------------------------------ bounds -------------------------------- *)

\* largest max_retries a direct caller of _request passes
MaxRetriesBound == 7
\* largest number of images in one response
MaxImages == 2
MaxModels == 2
MaxLiveRetries == 4
MaxFindCatalog == 22

(* ------------------------- program constants -------------------------- *)

DefaultMaxRetries == 3
BackoffCap == 30
\* 400 taken for a transient code
RetryableCodesWide == {400, 408, 429, 502, 503}
RetryableCodes == {408, 429, 502, 503}

\* the table of friendlier messages, keyed by code
error_messages ==
    [c \in {400, 401, 402, 403, 429} |->
        CASE c = 400 -> "Bad request - check parameters"
          [] c = 401 -> "Invalid API key - check OPENROUTER_API_KEY"
          [] c = 402 -> "Insufficient credits - add funds at openrouter.ai"
          [] c = 403 -> "Content flagged by moderation"
          [] c = 429 -> "Rate limited - wait before retrying"]

(* --------------------------- the environment --------------------------- *)

Statuses == {200, 400, 401, 402, 403, 408, 429, 500, 502, 503}
\* values of error.code that differ from or agree with the HTTP status
BodyCodes == {403, 429}
NoCode == 0
NoMessage == "<absent>"
RawText == "<response.text>"

\* an entry of images: its data URL is data:<mime>;base64,<payload>
Mimes == {"image/png", "image/webp"}
Payloads == {"aW1n"}
Image(mime, b64) == [mime |-> mime, payload |-> b64]

\* A response body.  json = FALSE: the body is not JSON and response.json()
\* raises.  Otherwise the body is a JSON object; hasError/code/message
\* describe its "error" member, hasChoices says whether choices[0].message
\* exists, hasImages/images describe the member images of that message,
\* hasContent/content its member content, hasData/data the member data of
\* the body (the model catalog).
Body(json, hasError, code, message, hasChoices, hasImages, images) ==
    [json |-> json, hasError |-> hasError, code |-> code, message |-> message,
     hasChoices |-> hasChoices, hasImages |-> hasImages, images |-> images,
     hasContent |-> FALSE, content |-> "", hasData |-> FALSE, data |-> <<>>]

NonJsonBody == Body(FALSE, FALSE, NoCode, NoMessage, FALSE, FALSE, <<>>)
PlainBody == Body(TRUE, FALSE, NoCode, NoMessage, FALSE, FALSE, <<>>)
ErrorBodies ==
    {Body(TRUE, TRUE, c, m, FALSE, FALSE, <<>>) :
        c \in BodyCodes \cup {NoCode}, m \in {NoMessage, "server message"}}
ImageLists ==
    {<<>>} \cup
    UNION {[1..n -> {Image(m, p) : m \in Mimes, p \in Payloads}] : n \in 1..MaxImages}
ImageBodies ==
    {Body(TRUE, FALSE, NoCode, NoMessage, TRUE, TRUE, il) : il \in ImageLists}
    \cup {Body(TRUE, FALSE, NoCode, NoMessage, TRUE, FALSE, <<>>)}

Response(status, body) == [kind |-> "response", status |-> status, body |-> body]
NoResponse == [kind |-> "none", status |-> 0, body |-> NonJsonBody]
TimeoutOutcome == [kind |-> "timeout", status |-> 0, body |-> NonJsonBody]
ConnectionOutcome == [kind |-> "connection", status |-> 0, body |-> NonJsonBody]

Responses ==
    {Response(s, b) : s \in Statuses, b \in {NonJsonBody, PlainBody} \cup ErrorBodies}
    \cup {Response(200, b) : b \in ImageBodies}

(* ------------------------------ results -------------------------------- *)

Failure(kind, code, msg) == [kind |-> kind, code |-> code, msg |-> msg]
NoFailure == Failure("none", NoCode, "")

Pending == [kind |-> "pending", body |-> NonJsonBody, err |-> NoFailure]
\* returns without the parsed body of the response
ReturnUnparsed(body) == [kind |-> "return", body |-> NonJsonBody, err |-> NoFailure]
Return(body) == [kind |-> "return", body |-> body, err |-> NoFailure]
Raise(failure) == [kind |-> "raise", body |-> NonJsonBody, err |-> failure]

\* summary of the outcome of the attempt before the last one
Summary(kind, code) == [kind |-> kind, code |-> code]
NoSummary == Summary("none", NoCode)

Min(a, b) == IF a < b THEN a ELSE b
Last(s) == s[Len(s)]

RequestEvent(a, m) == [ev |-> "request", attempt |-> a, method |-> m, wait |-> 0]
SleepEvent(a, w) == [ev |-> "sleep", attempt |-> a, method |-> "", wait |-> w]

(* --------------------------- _request: helpers ------------------------- *)

\* looks into the body before it takes a 200 for a success
IsSuccessNoError(r) == r.status = 200 /\ ~r.body.hasError

\* response.status_code == 200
IsSuccess(r) == r.status = 200

\* classifies by the HTTP status alone
ErrorCodeStatusOnly(r) == r.status

\* error = response.json().get("error", {}); code = error.get("code", status)
ErrorCode(r) ==
    IF r.body.hasError /\ r.body.code # NoCode THEN r.body.code ELSE r.status

\* message = error.get("message", response.text)
ErrorMessage(r) ==
    IF r.body.hasError /\ r.body.message # NoMessage THEN r.body.message ELSE RawText

\* the backoff without its cap
WaitUncapped(a) == (2 ^ a) * 2

\* wait = min(2**attempt * 2, 30)
Wait(a) == Min((2 ^ a) * 2, BackoffCap)

\* retries on the last attempt too
ShouldRetryOffByOne(code, a, maxr) == code \in RetryableCodes /\ a < maxr

\* code in [408, 429, 502, 503] and attempt < max_retries - 1
ShouldRetry(code, a, maxr) == code \in RetryableCodes /\ a < maxr - 1

\* goes on after a timeout on the last attempt too
TimeoutRetryOffByOne(a, maxr) == a < maxr

\* the retry test of the except-Timeout branch
TimeoutRetry(a, maxr) == a < maxr - 1

\* reports the code of the attempt before when there was one
OpenRouterErrorStale(r) ==
    LET code == IF resp.kind = "response" THEN ErrorCode(resp) ELSE ErrorCode(r)
        msg == IF code \in DOMAIN error_messages
               THEN error_messages[code] ELSE ErrorMessage(r)
    IN Failure("OpenRouter error", code, msg)

\* msg = error_messages.get(code, message); the raised failure
OpenRouterError(r) ==
    LET code == ErrorCode(r)
        msg == IF code \in DOMAIN error_messages
               THEN error_messages[code] ELSE ErrorMessage(r)
    IN Failure("OpenRouter error", code, msg)

\* what the outcome of the last attempt is remembered as
Summarize(r) ==
    CASE r.kind = "timeout" -> Summary("timeout", NoCode)
      [] r.kind = "connection" -> Summary("connection", NoCode)
      [] r.kind = "response" /\ ~r.body.json -> Summary("nonjson", NoCode)
      [] r.kind = "response" /\ IsSuccess(r) -> Summary("ok", 200)
      [] r.kind = "response" -> Summary("code", ErrorCode(r))
      [] OTHER -> NoSummary

(* ------------------------------- state --------------------------------- *)

\* a path: root says whether it starts at "/", parts are its components;
\* NoPath stands for an output_path that was not supplied
Path(root, parts) == [root |-> root, parts |-> parts]
NoPath == Path(FALSE, <<>>)
OutputPaths == {NoPath, Path(TRUE, <<"out", "a.png">>), Path(FALSE, <<"out", "a.png">>)}

\* Path.is_absolute()
IsAbsolute(p) == p.root

\* path.parent
Parent(p) == Path(p.root, SubSeq(p.parts, 1, Len(p.parts) - 1))

\* base64.b64decode of the payload of a data URL
B64Decode(b64) == CASE b64 = "aW1n" -> "img" [] b64 = "cGlj" -> "pic" [] OTHER -> "?"

\* data_url.split(";")[0].split(":")[1].split("/")[1]
MimeSubtype(mime) ==
    CASE mime = "image/png" -> "png" [] mime = "image/webp" -> "webp" [] OTHER -> "?"

\* the file system as far as the call in progress changed it: the files
\* written (path and content) and the directories made since it began
File(path, data) == [path |-> path, data |-> data]
EmptyFs == [files |-> {}, dirs |-> {}]

\* a tool invocation: its arguments, the environment variables it reads and
\* whether it has called the client yet; args holds the arguments that only
\* shape the request
Tool(name, model, env_model, api_key, output_path, called) ==
    [name |-> name, model |-> model, env_model |-> env_model,
     api_key |-> api_key, output_path |-> output_path, called |-> called,
     args |-> <<>>]
NoTool == Tool("none", "", "", FALSE, NoPath, FALSE)

\* what a tool hands back: a value or an exception
NoValue == [data |-> "", format |-> ""]
ToolPending == [kind |-> "pending", value |-> NoValue, err |-> NoFailure]
ToolReturn(value) == [kind |-> "return", value |-> value, err |-> NoFailure]
ToolRaise(failure) == [kind |-> "raise", value |-> NoValue, err |-> failure]

\* resolved_model = model or get_default_model(category)
ResolveModel(model, env_model) == IF model # "" THEN model ELSE env_model

(* ----------------------- request bodies (payloads) --------------------- *)

\* A JSON object is a function from its keys; a key that is not sent is not
\* in its domain.  NoPayload is the payload of a call that has none.
NoPayload == <<>>

\* dict.update: the keys of extra are added to base, or replace its values
Update(base, extra) ==
    [k \in DOMAIN base \cup DOMAIN extra |->
        IF k \in DOMAIN extra THEN extra[k] ELSE base[k]]

\* {"role": role, "content": content}
Message(role, content) == [role |-> role, content |-> content]

\* puts the optional settings into image_config
GenerateImagePayloadNested(model, prompt, aspect_ratio, size, background, quality, output_format) ==
    LET base == [aspect_ratio |-> aspect_ratio, image_size |-> size]
        c1 == IF background # "" THEN Update(base, [background |-> background]) ELSE base
        c2 == IF quality # "" THEN Update(c1, [quality |-> quality]) ELSE c1
        c3 == IF output_format # "" THEN Update(c2, [output_format |-> output_format]) ELSE c2
    IN [model |-> model,
        messages |-> <<Message("user", prompt)>>,
        modalities |-> <<"image", "text">>,
        image_config |-> c3,
        n |-> 1]

\* the payload client.generate_image builds; "" stands for an option that was
\* not supplied (None)
GenerateImagePayload(model, prompt, aspect_ratio, size, background, quality, output_format) ==
    LET image_config == [aspect_ratio |-> aspect_ratio, image_size |-> size]
        base == [model |-> model,
                 messages |-> <<Message("user", prompt)>>,
                 modalities |-> <<"image", "text">>,
                 image_config |-> image_config,
                 n |-> 1]
        p1 == IF background # "" THEN Update(base, [background |-> background]) ELSE base
        p2 == IF quality # "" THEN Update(p1, [quality |-> quality]) ELSE p1
    IN IF output_format # "" THEN Update(p2, [output_format |-> output_format]) ELSE p2

\* what an operation of the client hands back: a value or an exception
OpPending == [kind |-> "pending", value |-> <<>>, err |-> NoFailure]
OpReturn(value) == [kind |-> "return", value |-> value, err |-> NoFailure]
OpRaise(failure) == [kind |-> "raise", value |-> <<>>, err |-> failure]

(* ------------------------------ config.py ------------------------------ *)

\* the environment: the value of each variable, "" for one that is not set
EnvVars == {"DEFAULT_TEXT_MODEL", "DEFAULT_IMAGE_MODEL", "DEFAULT_CODE_MODEL",
            "DEFAULT_VISION_MODEL", "DEFAULT_EMBEDDING_MODEL"}
EnvValue(var) ==
    CASE var = "DEFAULT_TEXT_MODEL" -> "env/text"
      [] var = "DEFAULT_IMAGE_MODEL" -> "env/image"
      [] var = "DEFAULT_CODE_MODEL" -> "env/code"
      [] var = "DEFAULT_VISION_MODEL" -> "env/vision"
      [] OTHER -> "env/embedding"
Envs == {[v \in EnvVars |-> IF v \in set THEN EnvValue(v) ELSE ""] : set \in SUBSET EnvVars}

\* the environment in which every variable but var is set and var has value
EnvWith(var, value) == [v \in EnvVars |-> IF v = var THEN value ELSE EnvValue(v)]

MODEL_DEFAULTS ==
    [c \in {"text", "image", "code", "vision"} |->
        CASE c = "text" -> "DEFAULT_TEXT_MODEL"
          [] c = "image" -> "DEFAULT_IMAGE_MODEL"
          [] c = "code" -> "DEFAULT_CODE_MODEL"
          [] c = "vision" -> "DEFAULT_VISION_MODEL"]

\* looks the image default up for every category
GetDefaultModelImage(category, env) == env["DEFAULT_IMAGE_MODEL"]

\* get_default_model(category); "" stands for None
get_default_model(category, env) ==
    IF category \notin DOMAIN MODEL_DEFAULTS THEN ""
    ELSE env[MODEL_DEFAULTS[category]]

(* ----------------------------- chat payloads --------------------------- *)

\* an optional argument: None, or Some(v) for a value that was passed
None == <<>>
Some(v) == <<v>>

\* payload = {"model": model, "messages": messages}; payload.update(kwargs)
ChatPayload(model, messages, kwargs) ==
    Update([model |-> model, messages |-> messages], kwargs)

\* puts the system message after the user message
ChatSimpleMessagesSwapped(prompt, system) ==
    IF system # ""
    THEN <<Message("user", prompt), Message("system", system)>>
    ELSE <<Message("user", prompt)>>

\* the messages chat_simple builds; "" stands for a system prompt that was
\* not supplied
ChatSimpleMessages(prompt, system) ==
    (IF system # "" THEN <<Message("system", system)>> ELSE <<>>)
       \o <<Message("user", prompt)>>

\* drops an option whose value is falsy (0)
ToolChatKwargsTruthy(max_tokens, temperature, json_mode) ==
    LET k1 == IF max_tokens # None /\ max_tokens # Some(0)
              THEN [max_tokens |-> max_tokens[1]] ELSE <<>>
        k2 == IF temperature # None /\ temperature # Some(0)
              THEN Update(k1, [temperature |-> temperature[1]]) ELSE k1
    IN IF json_mode
       THEN Update(k2, [response_format |-> [type |-> "json_object"]]) ELSE k2

\* the kwargs the chat tool builds
ToolChatKwargs(max_tokens, temperature, json_mode) ==
    LET k1 == IF max_tokens # None THEN [max_tokens |-> max_tokens[1]] ELSE <<>>
        k2 == IF temperature # None
              THEN Update(k1, [temperature |-> temperature[1]]) ELSE k1
    IN IF json_mode
       THEN Update(k2, [response_format |-> [type |-> "json_object"]]) ELSE k2

\* gives "" for a message without content
ContentOrDefault(body) ==
    IF ~body.hasChoices THEN OpRaise(Failure("KeyError", NoCode, "choices"))
    ELSE OpReturn(body.content)

\* result["choices"][0]["message"]["content"]
ContentOf(body) ==
    IF ~body.hasChoices THEN OpRaise(Failure("KeyError", NoCode, "choices"))
    ELSE IF ~body.hasContent THEN OpRaise(Failure("KeyError", NoCode, "content"))
    ELSE OpReturn(body.content)

Init ==
    /\ pc = "idle"
    /\ method = "GET"
    /\ max_retries = DefaultMaxRetries
    /\ attempt = 0
    /\ resp = NoResponse
    /\ prev = NoSummary
    /\ result = Pending
    /\ trace = <<>>
    /\ outcomes = <<>>
    /\ caller = "none"
    /\ tool = NoTool
    /\ toolResult = ToolPending
    /\ fs = EmptyFs
    /\ endpoint = ""
    /\ payload = NoPayload
    /\ opResult = OpPending

\* the state _request starts in: the loop variable at its first value
StartRequest(m, maxr, who) ==
    /\ pc' = "attempting"
    /\ method' = m
    /\ max_retries' = maxr
    /\ attempt' = 0
    /\ resp' = NoResponse
    /\ prev' = NoSummary
    /\ result' = Pending
    /\ trace' = <<>>
    /\ outcomes' = <<>>
    /\ caller' = who

\* a direct call of _request(method, endpoint, payload, max_retries)
Call ==
    /\ pc = "idle"
    /\ \E m \in {"GET", "POST"}, maxr \in 0..MaxRetriesBound :
          StartRequest(m, maxr, "direct")
    /\ UNCHANGED <<tool, toolResult, fs, opvars>>

\* one iteration of the loop sends one HTTP request
Sent == Append(trace, RequestEvent(attempt, method))

InLoop == pc = "attempting" /\ attempt < max_retries

Finished(r, res, kind) ==
    /\ pc' = "done"
    /\ result' = res
    /\ resp' = r
    /\ prev' = Summarize(resp)
    /\ trace' = Sent
    /\ outcomes' = Append(outcomes, kind)
    /\ UNCHANGED <<method, max_retries, attempt, caller, tool, toolResult, fs, opvars>>

\* the first retry of a call does not advance the loop variable
ContinuedFreeFirst(r, kind, events) ==
    /\ pc' = "attempting"
    /\ attempt' = IF outcomes = <<>> THEN attempt ELSE attempt + 1
    /\ resp' = r
    /\ prev' = Summarize(resp)
    /\ trace' = Sent \o events
    /\ outcomes' = Append(outcomes, kind)
    /\ UNCHANGED <<method, max_retries, result, caller, tool, toolResult, fs, opvars>>

Continued(r, kind, events) ==
    /\ pc' = "attempting"
    /\ attempt' = attempt + 1
    /\ resp' = r
    /\ prev' = Summarize(resp)
    /\ trace' = Sent \o events
    /\ outcomes' = Append(outcomes, kind)
    /\ UNCHANGED <<method, max_retries, result, caller, tool, toolResult, fs, opvars>>

\* status 200: return response.json()
AttemptSuccess ==
    /\ InLoop
    /\ \E r \in Responses :
          /\ r.body.json
          /\ IsSuccess(r)
          /\ Finished(r, Return(r.body), "ok")

\* a retryable code on an attempt that is not the last: sleep, continue
AttemptRetry ==
    /\ InLoop
    /\ \E r \in Responses :
          /\ r.body.json
          /\ ~IsSuccess(r)
          /\ ShouldRetry(ErrorCode(r), attempt, max_retries)
          /\ Continued(r, "retryable", <<SleepEvent(attempt, Wait(attempt))>>)

\* any other code, or a retryable code on the last attempt: raise
AttemptError ==
    /\ InLoop
    /\ \E r \in Responses :
          /\ r.body.json
          /\ ~IsSuccess(r)
          /\ ~ShouldRetry(ErrorCode(r), attempt, max_retries)
          /\ Finished(r, Raise(OpenRouterError(r)),
                      IF ErrorCode(r) \in RetryableCodes THEN "retryable" ELSE "fatal")

\* response.json() raises on a body that is not JSON: with requests >= 2.27
\* the exception is a RequestException ("Network error"), before that a
\* ValueError that no except clause catches
AttemptBadBody ==
    /\ InLoop
    /\ \E r \in Responses, k \in {"Network error", "JSONDecodeError"} :
          /\ ~r.body.json
          /\ Finished(r, Raise(Failure(k, NoCode, "")), "nonjson")

\* backs off after a timeout as after a retryable code
AttemptTimeoutRetrySleeps ==
    /\ InLoop
    /\ TimeoutRetry(attempt, max_retries)
    /\ Continued(TimeoutOutcome, "timeout", <<SleepEvent(attempt, Wait(attempt))>>)

\* requests.exceptions.Timeout on an attempt that is not the last: continue
AttemptTimeoutRetry ==
    /\ InLoop
    /\ TimeoutRetry(attempt, max_retries)
    /\ Continued(TimeoutOutcome, "timeout", <<>>)

\* reports the code of the attempt before when it got one
AttemptTimeoutFailStale ==
    /\ InLoop
    /\ ~TimeoutRetry(attempt, max_retries)
    /\ Finished(TimeoutOutcome,
                IF resp.kind = "response" /\ resp.body.json
                THEN Raise(OpenRouterError(resp))
                ELSE Raise(Failure("Request timed out after retries", NoCode, "")),
                "timeout")

\* requests.exceptions.Timeout on the last attempt
AttemptTimeoutFail ==
    /\ InLoop
    /\ ~TimeoutRetry(attempt, max_retries)
    /\ Finished(TimeoutOutcome,
                Raise(Failure("Request timed out after retries", NoCode, "")),
                "timeout")

\* treats a connection failure like a timeout
AttemptConnectionErrorRetried ==
    /\ InLoop
    /\ IF TimeoutRetry(attempt, max_retries)
       THEN Continued(ConnectionOutcome, "connection", <<>>)
       ELSE Finished(ConnectionOutcome, Raise(Failure("Network error", NoCode, "")),
                     "connection")

\* any other requests.exceptions.RequestException
AttemptConnectionError ==
    /\ InLoop
    /\ Finished(ConnectionOutcome, Raise(Failure("Network error", NoCode, "")),
                "connection")

\* the loop ran to completion: raise Exception("Max retries exceeded")
Exhausted ==
    /\ pc = "attempting"
    /\ ~(attempt < max_retries)
    /\ pc' = "done"
    /\ result' = Raise(Failure("Max retries exceeded", NoCode, ""))
    /\ UNCHANGED <<method, max_retries, attempt, resp, prev, trace, outcomes,
                   caller, tool, toolResult, fs, opvars>>

\* the direct caller has its result; the client is ready for the next call
Finish ==
    /\ pc = "done"
    /\ caller = "direct"
    /\ pc' = "idle"
    /\ method' = "GET"
    /\ max_retries' = DefaultMaxRetries
    /\ attempt' = 0
    /\ resp' = NoResponse
    /\ prev' = NoSummary
    /\ result' = Pending
    /\ trace' = <<>>
    /\ outcomes' = <<>>
    /\ caller' = "none"
    /\ UNCHANGED <<tool, toolResult, fs, opvars>>

(* ------------------ mcp_openrouter/server.py: generate_image ------------ *)

\* images = result["choices"][0]["message"].get("images", [])
ImagesOf(body) == IF body.hasImages THEN body.images ELSE <<>>

\* the tool is called: the model is resolved, the client is made and
\* client.generate_image (called without an output path) sends its request
ToolGenerateImage ==
    /\ pc = "idle"
    /\ \E model \in {"", "m/x"}, env_model \in {"", "env/image"},
          api_key \in BOOLEAN, output_path \in OutputPaths :
          LET t == Tool("generate_image", model, env_model, api_key, output_path, FALSE)
              resolved_model ==
                  ResolveModel(model, get_default_model("image",
                                          EnvWith("DEFAULT_IMAGE_MODEL", env_model)))
          IN IF resolved_model = ""
             THEN /\ pc' = "tool_done"
                  /\ tool' = t
                  /\ toolResult' = ToolRaise(Failure("No model specified", NoCode, ""))
                  /\ UNCHANGED <<method, max_retries, attempt, resp, prev, result,
                                 trace, outcomes, caller, opvars>>
             ELSE IF ~api_key
             THEN /\ pc' = "tool_done"
                  /\ tool' = t
                  /\ toolResult' = ToolRaise(Failure(
                         "OPENROUTER_API_KEY environment variable not set", NoCode, ""))
                  /\ UNCHANGED <<method, max_retries, attempt, resp, prev, result,
                                 trace, outcomes, caller, opvars>>
             ELSE /\ StartRequest("POST", DefaultMaxRetries, "generate_image")
                  /\ tool' = [t EXCEPT !.called = TRUE]
                  /\ toolResult' = ToolPending
                  /\ endpoint' = "chat/completions"
                  /\ payload' = GenerateImagePayload(resolved_model,
                                     "a cat", "1:1", "1K", "", "", "")
                  /\ UNCHANGED opResult
    /\ UNCHANGED fs

\* the request is over: client.generate_image returns the images or raises,
\* and the tool goes on from line 139
ToolGenerateImageResume ==
    /\ pc = "done"
    /\ caller = "generate_image"
    /\ pc' = "tool_done"
    /\ IF result.kind = "raise"
       THEN /\ toolResult' = ToolRaise(result.err)
            /\ UNCHANGED fs
       ELSE IF ~result.body.hasChoices
       THEN /\ toolResult' = ToolRaise(Failure("KeyError", NoCode, "choices"))
            /\ UNCHANGED fs
       ELSE LET images == ImagesOf(result.body)
            IN IF images = <<>>
               THEN /\ toolResult' = ToolRaise(Failure("No image was generated", NoCode, ""))
                    /\ UNCHANGED fs
               ELSE LET image_data == B64Decode(images[1].payload)
                        img_format == MimeSubtype(images[1].mime)
                        path == tool.output_path
                    IN IF path = NoPath
                       THEN /\ toolResult' = ToolReturn([data |-> image_data, format |-> img_format])
                            /\ UNCHANGED fs
                       ELSE IF ~IsAbsolute(path)
                       THEN /\ toolResult' = ToolRaise(Failure(
                                   "output_path must be an absolute path", NoCode, ""))
                            /\ UNCHANGED fs
                       ELSE /\ toolResult' = ToolReturn([data |-> image_data, format |-> img_format])
                            /\ fs' = [files |-> {f \in fs.files : f.path # path}
                                                  \cup {File(path, image_data)},
                                      dirs |-> fs.dirs \cup {Parent(path)}]
    /\ UNCHANGED <<method, max_retries, attempt, resp, prev, result, trace,
                   outcomes, caller, tool, opvars>>

\* the host has the tool's answer; the server waits for the next call
ToolFinish ==
    /\ pc = "tool_done"
    /\ pc' = "idle"
    /\ method' = "GET"
    /\ max_retries' = DefaultMaxRetries
    /\ attempt' = 0
    /\ resp' = NoResponse
    /\ prev' = NoSummary
    /\ result' = Pending
    /\ trace' = <<>>
    /\ outcomes' = <<>>
    /\ caller' = "none"
    /\ tool' = NoTool
    /\ toolResult' = ToolPending
    /\ fs' = EmptyFs
    /\ endpoint' = ""
    /\ payload' = NoPayload
    /\ opResult' = OpPending

(* ------------------- the operations of OpenRouterClient ----------------- *)

\* base64 payloads of the images the service returns to the operations
OpPayloads == {"aW1n", "cGlj"}
OpImageLists ==
    {<<>>} \cup
    UNION {[1..n -> {Image(m, p) : m \in Mimes, p \in OpPayloads}] : n \in 1..MaxImages}
OpImageBodies ==
    {Body(TRUE, FALSE, NoCode, NoMessage, TRUE, TRUE, il) : il \in OpImageLists}
    \cup {Body(TRUE, FALSE, NoCode, NoMessage, TRUE, FALSE, <<>>)}

\* a body with choices[0].message.content
ContentBody(c) ==
    [Body(TRUE, FALSE, NoCode, NoMessage, TRUE, FALSE, <<>>)
        EXCEPT !.hasContent = TRUE, !.content = c]
ChatBodies ==
    {PlainBody, Body(TRUE, FALSE, NoCode, NoMessage, TRUE, FALSE, <<>>),
     ContentBody("hi"), ContentBody("")}

(* the catalog of frontend/models: the "data" member of the body, a list of
   JSON objects.  slug and name are strings, written as sequences of
   characters so that lower() and "in" work on them. *)
LongContext == 100000

\* m.get(key, default)
Get(m, key, default) == IF key \in DOMAIN m THEN m[key] ELSE default

\* x in list
In(x, list) == \E i \in DOMAIN list : list[i] = x

\* str.lower() on the characters in use
LowerChar(c) == CASE c = "A" -> "a" [] c = "B" -> "b" [] OTHER -> c
Lower(str) == [i \in DOMAIN str |-> LowerChar(str[i])]

\* t in s, for strings
Contains(str, t) ==
    \E i \in 0..(Len(str) - Len(t)) : SubSeq(str, i + 1, i + Len(t)) = t

\* entries that differ in the fields the capabilities look at, and one entry
\* without any of these fields
ListPool ==
    {[slug |-> <<"a">>, name |-> <<"A">>, input_modalities |-> im,
      output_modalities |-> om, supported_parameters |-> sp, context_length |-> cl] :
        im \in {<<"text">>, <<"text", "image">>}, om \in {<<"text">>, <<"image">>},
        sp \in {<<>>, <<"temperature", "tools">>},
        cl \in {LongContext - 1, LongContext}}
    \cup {[slug |-> <<"a">>, name |-> <<"A">>]}

\* entries that differ in slug and name, and one entry without a name
FindPool ==
    {[slug |-> <<"a", "b">>, name |-> <<"B", "a">>],
     [slug |-> <<"b", "b">>, name |-> <<"A", "B">>],
     [slug |-> <<"A", "b">>, name |-> <<"b", "b">>],
     [slug |-> <<"b", "a">>]}

Catalogs(pool) == UNION {[1..n -> pool] : n \in 0..MaxModels}
DataBody(catalog) == [PlainBody EXCEPT !.hasData = TRUE, !.data = catalog]

\* the catalogs the find_models tool is tried on: up to MaxFindCatalog
\* entries, of which all, every second one or none has "a" in its slug; the
\* entries differ in context_length, which every fourth entry lacks, and
\* carry a member the tool does not pass on
LongEntry(i, pattern) ==
    LET hit == pattern = "all" \/ (pattern = "alternate" /\ i % 2 = 1)
        base == [slug |-> IF hit THEN <<"a", "b">> ELSE <<"b", "b">>,
                 name |-> <<"B">>, pricing |-> "p"]
    IN IF i % 4 = 0 THEN base ELSE Update(base, [context_length |-> i])
LongCatalogs ==
    {[i \in 1..n |-> LongEntry(i, pattern)] :
        n \in 0..MaxFindCatalog, pattern \in {"all", "alternate", "none"}}

\* the bodies of the 200 responses an operation may get
AnswerBodies(who) ==
    CASE who \in {"client.generate_image", "generate_image",
                  "openrouter_mcp.generate_image"} ->
            OpImageBodies \cup {PlainBody, Body(TRUE, TRUE, 429, NoMessage, FALSE, FALSE, <<>>)}
      [] who \in {"client.chat", "client.chat_simple", "chat"} -> ChatBodies
      [] who = "client.list_models" ->
            {PlainBody} \cup {DataBody(c) : c \in Catalogs(ListPool)}
      [] who = "client.find_model" ->
            {PlainBody} \cup {DataBody(c) : c \in Catalogs(FindPool)}
      [] who = "find_models" ->
            {PlainBody} \cup {DataBody(c) : c \in LongCatalogs}
      [] OTHER -> {PlainBody}

\* how a call of _request with the default max_retries ends: it returns the
\* body of a 200 response or raises one of its failures
RequestResults(who) ==
    {Return(b) : b \in AnswerBodies(who)}
    \cup {Raise(OpenRouterError(Response(401, PlainBody))),
          Raise(Failure("Request timed out after retries", NoCode, "")),
          Raise(Failure("Network error", NoCode, ""))}

\* the whole of a call of _request made by an operation, in one step: at
\* least one HTTP request is sent and the call returns or raises
RequestAnswered ==
    /\ pc = "attempting"
    /\ caller \notin {"direct", "none"}
    /\ \E res \in RequestResults(caller) :
          /\ pc' = "done"
          /\ result' = res
          /\ trace' = Append(trace, RequestEvent(attempt, method))
          /\ outcomes' = Append(outcomes, IF res.kind = "return" THEN "ok" ELSE "fatal")
    /\ UNCHANGED <<method, max_retries, attempt, resp, prev, caller, tool,
                   toolResult, fs, opvars>>

\* the working directory relative paths are resolved against
Cwd == <<"cwd">>

\* Path(output_path).resolve()
Resolve(p) == IF p.root THEN p ELSE Path(TRUE, Cwd \o p.parts)

\* Path.stem and Path.suffix of the file names in use: the name is split at
\* its last dot
Stem(name) == CASE name = "a.png" -> "a" [] name = "b" -> "b" [] OTHER -> name
Suffix(name) == CASE name = "a.png" -> ".png" [] name = "b" -> "" [] OTHER -> ""

\* leaves the suffix of the given path out of the numbered names
IndexedPathNoSuffix(output, idx) ==
    LET name == Last(output.parts)
    IN Path(output.root, Parent(output).parts \o <<Stem(name) \o "_" \o ToString(idx)>>)

\* output.parent / f"{output.stem}_{idx}{output.suffix}"
IndexedPath(output, idx) ==
    LET name == Last(output.parts)
    IN Path(output.root,
            Parent(output).parts \o <<Stem(name) \o "_" \o ToString(idx) \o Suffix(name)>>)

\* open(path, "wb").write(data): the file is created or replaced
WriteFile(files, path, data) ==
    {f \in files : f.path # path} \cup {File(path, data)}

\* numbers the files from 1
ImagePathOneBased(output, i, n) == IF n = 1 THEN output ELSE IndexedPath(output, i)

\* the path image number i (from 1) of n is written to
ImagePath(output, i, n) == IF n = 1 THEN output ELSE IndexedPath(output, i - 1)

\* the loop of client.generate_image over enumerate(images)
RECURSIVE SaveImages(_, _, _, _)
SaveImages(files, output, images, i) ==
    IF i > Len(images) THEN files
    ELSE SaveImages(WriteFile(files, ImagePath(output, i, Len(images)),
                              B64Decode(images[i].payload)),
                    output, images, i + 1)

\* makes the directory whenever a path is given
PersistAnyway(output_path, images) ==
    IF output_path # NoPath
    THEN LET output == Resolve(output_path)
         IN [files |-> SaveImages(fs.files, output, images, 1),
             dirs |-> fs.dirs \cup {Parent(output)}]
    ELSE fs

\* if output_path and images: resolve, mkdir the parent, write the files
Persist(output_path, images) ==
    IF output_path # NoPath /\ images # <<>>
    THEN LET output == Resolve(output_path)
         IN [files |-> SaveImages(fs.files, output, images, 1),
             dirs |-> fs.dirs \cup {Parent(output)}]
    ELSE fs

ClientOutputPaths == OutputPaths \cup {Path(TRUE, <<"out", "b">>)}

\* client.generate_image(model, prompt, output_path, aspect_ratio, size,
\* background, quality, output_format) up to its call of _request
ClientGenerateImage ==
    /\ pc = "idle"
    /\ \E output_path \in ClientOutputPaths, aspect_ratio \in {"1:1", "16:9"},
          background \in {"", "transparent"}, quality \in {"", "high"},
          output_format \in {"", "png"} :
          /\ StartRequest("POST", DefaultMaxRetries, "client.generate_image")
          /\ tool' = [Tool("client.generate_image", "m/x", "", TRUE, output_path, TRUE)
                        EXCEPT !.args = [prompt |-> "a cat", aspect_ratio |-> aspect_ratio,
                                         size |-> "1K", background |-> background,
                                         quality |-> quality,
                                         output_format |-> output_format]]
          /\ endpoint' = "chat/completions"
          /\ payload' = GenerateImagePayload("m/x", "a cat", aspect_ratio, "1K",
                                             background, quality, output_format)
    /\ UNCHANGED <<toolResult, fs, opResult>>

\* client.generate_image from the return of _request on
ClientGenerateImageReturn ==
    /\ pc = "done"
    /\ caller = "client.generate_image"
    /\ pc' = "op_done"
    /\ IF result.kind = "raise"
       THEN /\ opResult' = OpRaise(result.err)
            /\ UNCHANGED fs
       ELSE IF ~result.body.hasChoices
       THEN /\ opResult' = OpRaise(Failure("KeyError", NoCode, "choices"))
            /\ UNCHANGED fs
       ELSE LET images == ImagesOf(result.body)
            IN /\ opResult' = OpReturn(images)
               /\ fs' = Persist(tool.output_path, images)
    /\ UNCHANGED <<method, max_retries, attempt, resp, prev, result, trace,
                   outcomes, caller, tool, toolResult, endpoint, payload>>

\* the messages and the options direct callers of chat pass
ChatMessageLists ==
    {<<>>,
     <<Message("user", "hello")>>,
     <<Message("user", "hi"), Message("assistant", "hey"), Message("user", "hi")>>,
     <<Message("assistant", "hey"), Message("system", "be helpful")>>}
ChatKwargs ==
    {<<>>, [temperature |-> 0], [max_tokens |-> 10, stop |-> <<"x">>],
     [response_format |-> [type |-> "json_object"], top_p |-> 1]}

\* client.chat(model, messages, **kwargs) up to its call of _request
ClientChat ==
    /\ pc = "idle"
    /\ \E messages \in ChatMessageLists, kwargs \in ChatKwargs :
          /\ StartRequest("POST", DefaultMaxRetries, "client.chat")
          /\ tool' = [Tool("client.chat", "m/x", "", TRUE, NoPath, TRUE)
                        EXCEPT !.args = [messages |-> messages, kwargs |-> kwargs]]
          /\ endpoint' = "chat/completions"
          /\ payload' = ChatPayload("m/x", messages, kwargs)
    /\ UNCHANGED <<toolResult, fs, opResult>>

\* client.chat returns what _request returns
ClientChatReturn ==
    /\ pc = "done"
    /\ caller = "client.chat"
    /\ pc' = "op_done"
    /\ opResult' = IF result.kind = "raise" THEN OpRaise(result.err)
                   ELSE OpReturn(result.body)
    /\ UNCHANGED <<method, max_retries, attempt, resp, prev, result, trace,
                   outcomes, caller, tool, toolResult, fs, endpoint, payload>>

\* client.chat_simple(model, prompt, system, **kwargs) up to the call of
\* _request made by chat
ClientChatSimple ==
    /\ pc = "idle"
    /\ \E prompt \in {"hello"}, system \in {"", "be helpful"}, kwargs \in ChatKwargs :
          /\ StartRequest("POST", DefaultMaxRetries, "client.chat_simple")
          /\ tool' = [Tool("client.chat_simple", "m/x", "", TRUE, NoPath, TRUE)
                        EXCEPT !.args = [prompt |-> prompt, system |-> system,
                                         kwargs |-> kwargs]]
          /\ endpoint' = "chat/completions"
          /\ payload' = ChatPayload("m/x", ChatSimpleMessages(prompt, system), kwargs)
    /\ UNCHANGED <<toolResult, fs, opResult>>

\* chat_simple takes the content out of what chat returns
ClientChatSimpleReturn ==
    /\ pc = "done"
    /\ caller = "client.chat_simple"
    /\ pc' = "op_done"
    /\ opResult' = IF result.kind = "raise" THEN OpRaise(result.err)
                   ELSE ContentOf(result.body)
    /\ UNCHANGED <<method, max_retries, attempt, resp, prev, result, trace,
                   outcomes, caller, tool, toolResult, fs, endpoint, payload>>

\* get_default_model(category) in some environment
GetDefaultModel ==
    /\ pc = "idle"
    /\ \E category \in DOMAIN MODEL_DEFAULTS \cup {"embedding", "unknown"}, env \in Envs :
          /\ tool' = [Tool("get_default_model", "", "", FALSE, NoPath, FALSE)
                        EXCEPT !.args = [category |-> category, env |-> env]]
          /\ opResult' = OpReturn(get_default_model(category, env))
    /\ pc' = "op_done"
    /\ caller' = "get_default_model"
    /\ UNCHANGED <<method, max_retries, attempt, resp, prev, result, trace,
                   outcomes, toolResult, fs, endpoint, payload>>

\* leaves out the entries with exactly 100000 tokens of context
IsLongContextStrict(m) == Get(m, "context_length", 0) > LongContext
IsLongContext(m) == Get(m, "context_length", 0) >= LongContext

\* list_models(capability) after its call of _request has returned body;
\* "" stands for no capability
ListModels(body, capability) ==
    LET models == IF body.hasData THEN body.data ELSE <<>>
    IN CASE capability = "vision" ->
              SelectSeq(models, LAMBDA m : In("image", Get(m, "input_modalities", <<>>)))
         [] capability = "image_gen" ->
              SelectSeq(models, LAMBDA m : In("image", Get(m, "output_modalities", <<>>)))
         [] capability = "tools" ->
              SelectSeq(models, LAMBDA m : In("tools", Get(m, "supported_parameters", <<>>)))
         [] capability = "long_context" -> SelectSeq(models, IsLongContext)
         [] OTHER -> models

Capabilities == {"", "vision", "image_gen", "tools", "long_context", "video"}

\* client.list_models(capability) up to its call of _request
ClientListModels ==
    /\ pc = "idle"
    /\ \E capability \in Capabilities :
          /\ StartRequest("GET", DefaultMaxRetries, "client.list_models")
          /\ tool' = [Tool("client.list_models", "", "", TRUE, NoPath, TRUE)
                        EXCEPT !.args = [capability |-> capability]]
    /\ endpoint' = "https://openrouter.ai/api/frontend/models"
    /\ payload' = NoPayload
    /\ UNCHANGED <<toolResult, fs, opResult>>

\* list_models filters the catalog and returns it
ClientListModelsReturn ==
    /\ pc = "done"
    /\ caller = "client.list_models"
    /\ pc' = "op_done"
    /\ opResult' = IF result.kind = "raise" THEN OpRaise(result.err)
                   ELSE OpReturn(ListModels(result.body, tool.args.capability))
    /\ UNCHANGED <<method, max_retries, attempt, resp, prev, result, trace,
                   outcomes, caller, tool, toolResult, fs, endpoint, payload>>

\* compares the term as given with the slug and the name as given
MatchesCaseSensitive(m, search_term) ==
    Contains(m.slug, search_term) \/ Contains(m.name, search_term)
\* search_lower in m["slug"].lower() or search_lower in m["name"].lower()
Matches(m, search_term) ==
    \/ Contains(Lower(m.slug), Lower(search_term))
    \/ Contains(Lower(m.name), Lower(search_term))

\* the subscripts m["slug"] and m["name"] raise KeyError on an entry without
\* the key; the name is looked at only when the slug does not match
MatchRaises(m, search_term) ==
    \/ "slug" \notin DOMAIN m
    \/ /\ ~Contains(Lower(m.slug), Lower(search_term))
       /\ "name" \notin DOMAIN m

\* find_model(search_term) after the call of _request made by list_models has
\* returned body
FindModel(body, search_term) ==
    LET models == ListModels(body, "")
    IN IF \E i \in DOMAIN models : MatchRaises(models[i], search_term)
       THEN OpRaise(Failure("KeyError", NoCode, "name"))
       ELSE OpReturn(SelectSeq(models, LAMBDA m : Matches(m, search_term)))

SearchTerms == {<<>>, <<"a">>, <<"A", "B">>, <<"b", "a">>, <<"B">>, <<"a", "a">>}

\* client.find_model(search_term) up to the call of _request made by
\* list_models()
ClientFindModel ==
    /\ pc = "idle"
    /\ \E search_term \in SearchTerms :
          /\ StartRequest("GET", DefaultMaxRetries, "client.find_model")
          /\ tool' = [Tool("client.find_model", "", "", TRUE, NoPath, TRUE)
                        EXCEPT !.args = [search_term |-> search_term]]
    /\ endpoint' = "https://openrouter.ai/api/frontend/models"
    /\ payload' = NoPayload
    /\ UNCHANGED <<toolResult, fs, opResult>>

\* find_model returns the entries that match
ClientFindModelReturn ==
    /\ pc = "done"
    /\ caller = "client.find_model"
    /\ pc' = "op_done"
    /\ opResult' = IF result.kind = "raise" THEN OpRaise(result.err)
                   ELSE FindModel(result.body, tool.args.search_term)
    /\ UNCHANGED <<method, max_retries, attempt, resp, prev, result, trace,
                   outcomes, caller, tool, toolResult, fs, endpoint, payload>>

(* ---------------------- mcp_openrouter/server.py: chat ------------------ *)

\* the chat tool is called: the model is resolved, the client is made and
\* client.chat_simple sends the request
ToolChat ==
    /\ pc = "idle"
    /\ \E model \in {"", "m/x"}, env_model \in {"", "env/text"}, api_key \in BOOLEAN,
          system \in {"", "be helpful"}, max_tokens \in {None, Some(0), Some(10)},
          temperature \in {None, Some(0)}, json_mode \in BOOLEAN :
          LET t == [Tool("chat", model, env_model, api_key, NoPath, FALSE)
                      EXCEPT !.args = [prompt |-> "hello", system |-> system,
                                       max_tokens |-> max_tokens,
                                       temperature |-> temperature,
                                       json_mode |-> json_mode]]
              resolved_model ==
                  ResolveModel(model, get_default_model("text",
                                          EnvWith("DEFAULT_TEXT_MODEL", env_model)))
          IN IF resolved_model = ""
             THEN /\ pc' = "tool_done"
                  /\ tool' = t
                  /\ toolResult' = ToolRaise(Failure("No model specified", NoCode, ""))
                  /\ UNCHANGED <<method, max_retries, attempt, resp, prev, result,
                                 trace, outcomes, caller, opvars>>
             ELSE IF ~api_key
             THEN /\ pc' = "tool_done"
                  /\ tool' = t
                  /\ toolResult' = ToolRaise(Failure(
                         "OPENROUTER_API_KEY environment variable not set", NoCode, ""))
                  /\ UNCHANGED <<method, max_retries, attempt, resp, prev, result,
                                 trace, outcomes, caller, opvars>>
             ELSE /\ StartRequest("POST", DefaultMaxRetries, "chat")
                  /\ tool' = [t EXCEPT !.called = TRUE]
                  /\ toolResult' = ToolPending
                  /\ endpoint' = "chat/completions"
                  /\ payload' = ChatPayload(resolved_model,
                                     ChatSimpleMessages("hello", system),
                                     ToolChatKwargs(max_tokens, temperature, json_mode))
                  /\ UNCHANGED opResult
    /\ UNCHANGED fs

\* the request is over: the tool returns what chat_simple returns
ToolChatResume ==
    /\ pc = "done"
    /\ caller = "chat"
    /\ pc' = "tool_done"
    /\ toolResult' =
          IF result.kind = "raise" THEN ToolRaise(result.err)
          ELSE LET r == ContentOf(result.body)
               IN IF r.kind = "raise" THEN ToolRaise(r.err) ELSE ToolReturn(r.value)
    /\ UNCHANGED <<method, max_retries, attempt, resp, prev, result, trace,
                   outcomes, caller, tool, fs, opvars>>

(* ---------------- openrouter_mcp/server.py: generate_image -------------- *)

\* what this tool returns: one of two messages, the first with the path in it
SavedMessage(output_path) == [text |-> "Generated image saved to", path |-> output_path]
NoImageMessage ==
    [text |-> "No image was generated. Try adjusting the prompt or model.",
     path |-> NoPath]

\* the tool is called with its output path: the model is resolved, the client
\* is made and client.generate_image, given the path, sends its request
LegacyGenerateImage ==
    /\ pc = "idle"
    /\ \E model \in {"", "m/x"}, env_model \in {"", "env/image"}, api_key \in BOOLEAN,
          output_path \in ClientOutputPaths \ {NoPath}, background \in {"", "transparent"} :
          LET t == [Tool("openrouter_mcp.generate_image", model, env_model, api_key,
                         output_path, FALSE)
                      EXCEPT !.args = [prompt |-> "a cat", aspect_ratio |-> "1:1",
                                       size |-> "1K", background |-> background,
                                       quality |-> "", output_format |-> ""]]
              resolved_model ==
                  ResolveModel(model, get_default_model("image",
                                          EnvWith("DEFAULT_IMAGE_MODEL", env_model)))
          IN IF resolved_model = ""
             THEN /\ pc' = "tool_done"
                  /\ tool' = t
                  /\ toolResult' = ToolRaise(Failure("No model specified", NoCode, ""))
                  /\ UNCHANGED <<method, max_retries, attempt, resp, prev, result,
                                 trace, outcomes, caller, opvars>>
             ELSE IF ~api_key
             THEN /\ pc' = "tool_done"
                  /\ tool' = t
                  /\ toolResult' = ToolRaise(Failure(
                         "OPENROUTER_API_KEY environment variable not set", NoCode, ""))
                  /\ UNCHANGED <<method, max_retries, attempt, resp, prev, result,
                                 trace, outcomes, caller, opvars>>
             ELSE /\ StartRequest("POST", DefaultMaxRetries, "openrouter_mcp.generate_image")
                  /\ tool' = [t EXCEPT !.called = TRUE]
                  /\ toolResult' = ToolPending
                  /\ endpoint' = "chat/completions"
                  /\ payload' = GenerateImagePayload(resolved_model, "a cat", "1:1", "1K",
                                                     background, "", "")
                  /\ UNCHANGED opResult
    /\ UNCHANGED fs

\* the request is over: client.generate_image writes the files and returns
\* the images (kept in opResult) or raises, and the tool returns its message
LegacyGenerateImageResume ==
    /\ pc = "done"
    /\ caller = "openrouter_mcp.generate_image"
    /\ pc' = "tool_done"
    /\ IF result.kind = "raise"
       THEN /\ toolResult' = ToolRaise(result.err)
            /\ opResult' = OpRaise(result.err)
            /\ UNCHANGED fs
       ELSE IF ~result.body.hasChoices
       THEN /\ toolResult' = ToolRaise(Failure("KeyError", NoCode, "choices"))
            /\ opResult' = OpRaise(Failure("KeyError", NoCode, "choices"))
            /\ UNCHANGED fs
       ELSE LET images == ImagesOf(result.body)
            IN /\ opResult' = OpReturn(images)
               /\ fs' = Persist(tool.output_path, images)
               /\ toolResult' = IF images # <<>>
                                 THEN ToolReturn(SavedMessage(tool.output_path))
                                 ELSE ToolReturn(NoImageMessage)
    /\ UNCHANGED <<method, max_retries, attempt, resp, prev, result, trace,
                   outcomes, caller, tool, endpoint, payload>>

(* ------------------ mcp_openrouter/server.py: find_models -------------- *)

FindModelsCap == 20

\* passes every match on
FirstMatchesUncapped(matches) == matches
\* matches[:20]
FirstMatches(matches) == SubSeq(matches, 1, Min(FindModelsCap, Len(matches)))

\* {"slug": m["slug"], "name": m["name"], "context_length": m.get("context_length")}
Simplified(m) ==
    [slug |-> m.slug, name |-> m.name,
     context_length |-> IF "context_length" \in DOMAIN m
                        THEN Some(m.context_length) ELSE None]

\* the find_models tool is called: the client is made and client.find_model
\* sends the request of list_models
ToolFindModels ==
    /\ pc = "idle"
    /\ \E search_term \in {<<"a">>, <<"A">>, <<"a", "a">>}, api_key \in BOOLEAN :
          LET t == [Tool("find_models", "", "", api_key, NoPath, FALSE)
                      EXCEPT !.args = [search_term |-> search_term]]
          IN IF ~api_key
             THEN /\ pc' = "tool_done"
                  /\ tool' = t
                  /\ toolResult' = ToolRaise(Failure(
                         "OPENROUTER_API_KEY environment variable not set", NoCode, ""))
                  /\ UNCHANGED <<method, max_retries, attempt, resp, prev, result,
                                 trace, outcomes, caller, opvars>>
             ELSE /\ StartRequest("GET", DefaultMaxRetries, "find_models")
                  /\ tool' = [t EXCEPT !.called = TRUE]
                  /\ toolResult' = ToolPending
                  /\ endpoint' = "https://openrouter.ai/api/frontend/models"
                  /\ payload' = NoPayload
                  /\ UNCHANGED opResult
    /\ UNCHANGED fs

\* the request is over: client.find_model returns its matches (kept in
\* opResult) or raises, and the tool returns the first of them, simplified
ToolFindModelsResume ==
    /\ pc = "done"
    /\ caller = "find_models"
    /\ pc' = "tool_done"
    /\ IF result.kind = "raise"
       THEN /\ toolResult' = ToolRaise(result.err)
            /\ opResult' = OpRaise(result.err)
       ELSE LET matches == FindModel(result.body, tool.args.search_term)
            IN /\ opResult' = matches
               /\ toolResult' =
                     IF matches.kind = "raise" THEN ToolRaise(matches.err)
                     ELSE LET first == FirstMatches(matches.value)
                          IN ToolReturn([j \in DOMAIN first |-> Simplified(first[j])])
    /\ UNCHANGED <<method, max_retries, attempt, resp, prev, result, trace,
                   outcomes, caller, tool, fs, endpoint, payload>>

\* the caller of the operation has its answer
ClientFinish ==
    /\ pc = "op_done"
    /\ pc' = "idle"
    /\ method' = "GET"
    /\ max_retries' = DefaultMaxRetries
    /\ attempt' = 0
    /\ resp' = NoResponse
    /\ prev' = NoSummary
    /\ result' = Pending
    /\ trace' = <<>>
    /\ outcomes' = <<>>
    /\ caller' = "none"
    /\ tool' = NoTool
    /\ toolResult' = ToolPending
    /\ fs' = EmptyFs
    /\ endpoint' = ""
    /\ payload' = NoPayload
    /\ opResult' = OpPending

Next ==
    \/ ToolGenerateImage
    \/ ToolGenerateImageResume
    \/ ToolFinish
    \/ Call
    \/ AttemptSuccess
    \/ AttemptRetry
    \/ AttemptError
    \/ AttemptBadBody
    \/ AttemptTimeoutRetry
    \/ AttemptTimeoutFail
    \/ AttemptConnectionError
    \/ Exhausted
    \/ Finish

Spec == Init /\ [][Next]_vars

\* a step of the loop of _request: the code is sequential, every request has
\* timeout=120 and so ends in a response, a Timeout or another exception, and
\* every sleep is finite, so a call in progress always takes its next step
RequestStep ==
    \/ AttemptSuccess
    \/ AttemptRetry
    \/ AttemptError
    \/ AttemptBadBody
    \/ AttemptTimeoutRetry
    \/ AttemptTimeoutFail
    \/ AttemptConnectionError
    \/ Exhausted

\* a direct call of _request with max_retries up to MaxLiveRetries
LiveCall ==
    /\ pc = "idle"
    /\ \E m \in {"GET", "POST"}, maxr \in 0..MaxLiveRetries :
          StartRequest(m, maxr, "direct")
    /\ UNCHANGED <<tool, toolResult, fs, opvars>>

\* calls of _request one after the other
LiveNext ==
    \/ LiveCall
    \/ RequestStep
    \/ Finish

LiveSpec == Init /\ [][LiveNext]_vars /\ WF_vars(RequestStep)

\* the operations of the client and the tools, each call of _request taken
\* as one step
OpNext ==
    \/ ClientGenerateImage
    \/ ClientGenerateImageReturn
    \/ ClientChat
    \/ ClientChatReturn
    \/ ClientChatSimple
    \/ ClientChatSimpleReturn
    \/ GetDefaultModel
    \/ ClientListModels
    \/ ClientListModelsReturn
    \/ ClientFindModel
    \/ ClientFindModelReturn
    \/ ToolChat
    \/ ToolChatResume
    \/ ToolFindModels
    \/ ToolFindModelsResume
    \/ LegacyGenerateImage
    \/ LegacyGenerateImageResume
    \/ ToolGenerateImage
    \/ ToolGenerateImageResume
    \/ ToolFinish
    \/ ClientFinish
    \/ RequestAnswered

OpSpec == Init /\ [][OpNext]_vars

(* ------------------------------ properties ----------------------------- *)

\* the number of HTTP requests in a trace
Requests(t) == Cardinality({i \in DOMAIN t : t[i].ev = "request"})

\* every attempt so far had the outcome kind k, and there was at least one
AllOutcomes(k) == outcomes # <<>> /\ \A i \in DOMAIN outcomes : outcomes[i] = k

\* a call of _request was made and is over (its caller may have gone on with
\* the result)
Ended == pc \in {"done", "tool_done"} /\ caller # "none"

\* the last response came with a body that parses
Parsed == resp.kind = "response" /\ resp.body.json

\* C1: when an attempt that is not the last gets a retryable code (408, 429,
\* 502, 503) and the next attempt gets HTTP 200, _request returns the body of
\* the 200 response, and that request is the last thing it does: the number
\* of requests is the number of failed attempts plus one.
C1_RetryThenSuccess ==
    (/\ max_retries >= 2
     /\ prev.kind = "code" /\ prev.code \in {408, 429, 502, 503}
     /\ Parsed /\ resp.status = 200)
    => /\ Ended
       /\ result = [kind |-> "return", body |-> resp.body, err |-> NoFailure]
       /\ Last(trace) = RequestEvent(attempt, method)
       /\ Requests(trace) = Cardinality({i \in DOMAIN outcomes : outcomes[i] # "ok"}) + 1

C1_Witness ==
    /\ pc = "done" /\ attempt = 2 /\ max_retries >= 4
    /\ prev.kind = "code" /\ prev.code = 503
    /\ resp.status = 200 /\ result.kind = "return" /\ Requests(trace) = 3

\* C2: a response whose code is 400, 401, 402 or 403 ends the call at once
\* with the failure 'OpenRouter error <code>': the request that got it is the
\* last event of the call, no sleep and no second request follows.
C2_FatalCodeFailsAtOnce ==
    \A c \in {400, 401, 402, 403} :
       (/\ max_retries >= 1
        /\ Parsed /\ resp.status # 200
        /\ c = (IF resp.body.hasError /\ resp.body.code # NoCode
                THEN resp.body.code ELSE resp.status))
       => /\ Ended
          /\ result.kind = "raise"
          /\ result.err.kind = "OpenRouter error" /\ result.err.code = c
          /\ Last(trace).ev = "request"

C2_Witness ==
    /\ pc = "done" /\ max_retries = 3 /\ attempt = 0
    /\ resp.kind = "response" /\ resp.status = 401
    /\ result.err.kind = "OpenRouter error" /\ result.err.code = 401
    /\ Requests(trace) = 1 /\ Len(trace) = 1

\* C3: a connection-level exception on any attempt ends the call at once with
\* the 'Network error' failure; the request that raised it is the last one.
C3_ConnectionErrorFailsAtOnce ==
    resp.kind = "connection"
    => /\ Ended
       /\ result.kind = "raise" /\ result.err.kind = "Network error"
       /\ Last(trace) = RequestEvent(attempt, method)
       /\ Requests(trace) = Len(outcomes)

C3_Witness ==
    /\ pc = "done" /\ resp.kind = "connection" /\ attempt = 1 /\ max_retries = 3
    /\ result.err.kind = "Network error" /\ Requests(trace) = 2

\* C4: with max_retries >= 1, as long as every attempt times out the call
\* goes on until max_retries requests are made, and then fails with 'Request
\* timed out after retries' (not with 'Max retries exceeded').
C4_AllTimeouts ==
    (max_retries >= 1 /\ AllOutcomes("timeout"))
    => IF Len(outcomes) < max_retries
       THEN pc = "attempting" /\ result.kind = "pending"
       ELSE /\ Ended
            /\ Requests(trace) = max_retries
            /\ result.kind = "raise"
            /\ result.err.kind = "Request timed out after retries"

C4_Witness ==
    /\ pc = "done" /\ max_retries = 3 /\ AllOutcomes("timeout")
    /\ Requests(trace) = 3 /\ result.err.kind = "Request timed out after retries"

\* C5: with max_retries >= 1, as long as every attempt gets a retryable code
\* the call goes on until max_retries requests are made, and then fails with
\* an 'OpenRouter error' that carries the code of the last attempt.
C5_AllRetryable ==
    (max_retries >= 1 /\ AllOutcomes("retryable"))
    => IF Len(outcomes) < max_retries
       THEN pc = "attempting" /\ result.kind = "pending"
       ELSE /\ Ended
            /\ Requests(trace) = max_retries
            /\ result.kind = "raise" /\ result.err.kind = "OpenRouter error"
            /\ result.err.code = (IF resp.body.hasError /\ resp.body.code # NoCode
                                  THEN resp.body.code ELSE resp.status)
            /\ result.err.code \in {408, 429, 502, 503}

C5_Witness ==
    /\ pc = "done" /\ max_retries = 3 /\ AllOutcomes("retryable")
    /\ Requests(trace) = 3
    /\ prev.kind = "code" /\ prev.code = 429
    /\ result.err.kind = "OpenRouter error" /\ result.err.code = 503

\* the waits of the backoff schedule for attempts 0..5, and 30 from then on
ExpectedWait(a) == IF a <= 5 THEN <<2, 4, 8, 16, 30, 30>>[a + 1] ELSE 30

\* C6: every sleep comes right after the request of an attempt a that got a
\* retryable code and is not the last allowed attempt, lasts min(2^a * 2, 30)
\* (2, 4, 8, 16, 30, 30 for a = 0..5) and is followed by the request of
\* attempt a + 1; every such attempt is followed by one sleep; the trace
\* starts with a request and a finished call's trace ends with one.
C6_Backoff ==
    /\ \A j \in DOMAIN trace :
          trace[j].ev = "sleep" =>
             LET a == trace[j].attempt
             IN /\ j > 1 /\ trace[j - 1].ev = "request" /\ trace[j - 1].attempt = a
                /\ outcomes[a + 1] = "retryable"
                /\ a < max_retries - 1
                /\ trace[j].wait = ExpectedWait(a)
                /\ j < Len(trace) =>
                      trace[j + 1].ev = "request" /\ trace[j + 1].attempt = a + 1
    /\ \A i \in DOMAIN outcomes :
          (outcomes[i] = "retryable" /\ i < max_retries) =>
             \E j \in DOMAIN trace :
                /\ trace[j] = SleepEvent(i - 1, ExpectedWait(i - 1))
                /\ \A k \in DOMAIN trace :
                      (trace[k].ev = "sleep" /\ trace[k].attempt = i - 1) => k = j
    /\ trace # <<>> => trace[1].ev = "request"
    /\ (Ended /\ trace # <<>>) => Last(trace).ev = "request"

C6_Witness ==
    /\ max_retries = 7 /\ attempt = 6
    /\ \E j \in DOMAIN trace : trace[j] = SleepEvent(5, 30)
    /\ \E j \in DOMAIN trace : trace[j] = SleepEvent(4, 30)
    /\ \E j \in DOMAIN trace : trace[j] = SleepEvent(3, 16)
    /\ \E j \in DOMAIN trace : trace[j] = SleepEvent(0, 2)

\* C7: when the generate_image tool of mcp_openrouter/server.py fails with
\* 'output_path must be an absolute path', it has not called
\* client.generate_image and no HTTP request has been sent.
C7_PathCheckedBeforeRequest ==
    (toolResult.kind = "raise"
        /\ toolResult.err.kind = "output_path must be an absolute path")
    => ~tool.called /\ Requests(trace) = 0

\* C8 as stated: no call of _request, whatever max_retries is, ends with
\* 'Max retries exceeded'.
C8_NeverMaxRetriesExceeded == result.err.kind # "Max retries exceeded"

\* C8: for max_retries >= 1 the loop never falls through: while the call is
\* in progress the loop variable is below max_retries, and no call ends with
\* 'Max retries exceeded'.
C8_NoFallThrough ==
    max_retries >= 1
    => /\ result.err.kind # "Max retries exceeded"
       /\ pc = "attempting" => attempt < max_retries
       /\ Ended => Len(outcomes) >= 1

C8_Witness ==
    /\ pc = "done" /\ max_retries = 2 /\ Len(outcomes) = 2
    /\ outcomes[1] = "retryable" /\ result.kind = "raise"

C10_SuccessReturnsBody ==
    (Parsed /\ resp.status = 200)
    => /\ Ended
       /\ result.kind = "return" /\ result.body = resp.body
       /\ Last(trace).ev = "request"
       /\ Last(outcomes) = "ok"

C10_Witness ==
    /\ pc = "done" /\ attempt = 1
    /\ resp.kind = "response" /\ resp.status = 200
    /\ resp.body.hasError /\ resp.body.code = 429
    /\ result.kind = "return" /\ result.body.hasError

\* client.generate_image has returned its list of images
ImagesReturned ==
    pc = "op_done" /\ caller = "client.generate_image" /\ opResult.kind = "return"

\* the names {stem}_{i}{suffix} for i = 0, 1, 2, ... of the file names in use
ExpectedNames(name) ==
    IF name = "a.png" THEN <<"a_0.png", "a_1.png", "a_2.png", "a_3.png">>
    ELSE <<"b_0", "b_1", "b_2", "b_3">>

\* the bytes a base64 payload stands for
ExpectedBytes(b64) == IF b64 = "aW1n" THEN "img" ELSE "pic"

\* C11: client.generate_image with an output path and n >= 1 returned images
\* writes exactly n files: for n = 1 one file at the resolved path, for
\* n >= 2 the files {stem}_{i}{suffix}, i = 0..n-1, in the directory of the
\* path, file i with the decoded bytes of image i; the given path itself is
\* then not written.
C11_FilesWritten ==
    (ImagesReturned /\ tool.output_path # NoPath /\ opResult.value # <<>>)
    => LET images == opResult.value
           n == Len(images)
           given == tool.output_path
           dir == (IF given.root THEN <<>> ELSE <<"cwd">>)
                     \o SubSeq(given.parts, 1, Len(given.parts) - 1)
           name == given.parts[Len(given.parts)]
       IN /\ Cardinality(fs.files) = n
          /\ n = 1 =>
                fs.files = {[path |-> [root |-> TRUE, parts |-> dir \o <<name>>],
                             data |-> ExpectedBytes(images[1].payload)]}
          /\ n >= 2 =>
                /\ \A i \in 1..n :
                      [path |-> [root |-> TRUE,
                                 parts |-> dir \o <<ExpectedNames(name)[i]>>],
                       data |-> ExpectedBytes(images[i].payload)] \in fs.files
                /\ \A f \in fs.files : f.path.parts # dir \o <<name>>

C11_Witness ==
    /\ ImagesReturned
    /\ tool.output_path = Path(FALSE, <<"out", "a.png">>)
    /\ Len(opResult.value) = 2
    /\ opResult.value[1].payload = "aW1n" /\ opResult.value[2].payload = "cGlj"
    /\ fs.files = {File(Path(TRUE, <<"cwd", "out", "a_0.png">>), "img"),
                   File(Path(TRUE, <<"cwd", "out", "a_1.png">>), "pic")}

\* C12: client.generate_image writes no file and makes no directory when no
\* output path is given or the 200 response has no images; a message without
\* an images member counts as an empty list, which the call returns.
C12_NothingWritten ==
    (/\ pc = "op_done" /\ caller = "client.generate_image"
     /\ result.kind = "return"
     /\ \/ tool.output_path = NoPath
        \/ ~result.body.hasImages
        \/ result.body.images = <<>>)
    => /\ fs = [files |-> {}, dirs |-> {}]
       /\ result.body.hasChoices =>
             /\ opResult.kind = "return"
             /\ opResult.value =
                   (IF result.body.hasImages THEN result.body.images ELSE <<>>)

C12_Witness ==
    /\ ImagesReturned
    /\ tool.output_path = Path(TRUE, <<"out", "a.png">>)
    /\ result.body.hasChoices /\ ~result.body.hasImages
    /\ opResult.value = <<>> /\ fs = EmptyFs

\* C16: the body client.generate_image sends always has image_config =
\* {aspect_ratio, image_size}, modalities = [image, text], n = 1 and one user
\* message with the prompt; background, quality and output_format are
\* top-level fields, each present exactly when it was supplied.
C16_ImagePayload ==
    (caller = "client.generate_image" /\ pc # "idle")
    => LET a == tool.args
           optional == {"background", "quality", "output_format"}
       IN /\ payload.model = tool.model
          /\ payload.messages = <<[role |-> "user", content |-> a.prompt]>>
          /\ payload.modalities = <<"image", "text">>
          /\ payload.n = 1
          /\ payload.image_config =
                [aspect_ratio |-> a.aspect_ratio, image_size |-> a.size]
          /\ DOMAIN payload \ optional =
                {"model", "messages", "modalities", "image_config", "n"}
          /\ \A k \in optional :
                /\ k \in DOMAIN payload <=> a[k] # ""
                /\ k \in DOMAIN payload => payload[k] = a[k]
          /\ method = "POST" /\ endpoint = "chat/completions"

C16_Witness ==
    /\ caller = "client.generate_image" /\ pc = "done"
    /\ tool.args.background = "transparent" /\ tool.args.quality = ""
    /\ tool.args.output_format = "png" /\ tool.args.aspect_ratio = "16:9"
    /\ DOMAIN payload = {"model", "messages", "modalities", "image_config", "n",
                         "background", "output_format"}

\* C13: chat_simple sends [{role: user, content: prompt}] when it has no system
\* prompt, and [{role: system, content: system}, {role: user, content: prompt}]
\* when it has one: one system entry, before the user entry.
C13_SimpleMessages ==
    (caller = "client.chat_simple" /\ pc # "idle")
    => LET a == tool.args
       IN /\ a.system = "" =>
                payload.messages = <<[role |-> "user", content |-> a.prompt]>>
          /\ a.system # "" =>
                payload.messages = <<[role |-> "system", content |-> a.system],
                                     [role |-> "user", content |-> a.prompt]>>

C13_Witness ==
    /\ caller = "client.chat_simple" /\ pc = "done" /\ Requests(trace) = 1
    /\ tool.args.system = "be helpful"
    /\ Len(payload.messages) = 2
    /\ payload.messages[1].role = "system" /\ payload.messages[2].role = "user"

\* C14: chat_simple returns choices[0].message.content of the 200 response, and
\* when the response lacks that path it raises a structural error (KeyError)
\* and returns nothing.
C14_ContentOrError ==
    (pc = "op_done" /\ caller = "client.chat_simple" /\ result.kind = "return")
    => IF result.body.hasChoices /\ result.body.hasContent
       THEN opResult = [kind |-> "return", value |-> result.body.content,
                        err |-> NoFailure]
       ELSE /\ opResult.kind = "raise"
            /\ opResult.err.kind = "KeyError"
            /\ opResult.value = <<>>

C14_Witness ==
    /\ pc = "op_done" /\ caller = "client.chat_simple" /\ result.kind = "return"
    /\ result.body.hasChoices /\ ~result.body.hasContent
    /\ opResult.kind = "raise" /\ opResult.err.msg = "content"

C19_ModelResolution ==
    (tool.name \in {"chat", "generate_image"} /\ pc # "idle")
    => /\ (tool.model # "" /\ tool.called) => payload.model = tool.model
       /\ (tool.model = "" /\ tool.env_model # "" /\ tool.called)
             => payload.model = tool.env_model
       /\ (tool.model = "" /\ tool.env_model = "")
             => /\ ~tool.called
                /\ trace = <<>>
                /\ pc = "tool_done"
                /\ toolResult.kind = "raise"
                /\ toolResult.err.kind = "No model specified"

C19_Witness ==
    /\ tool.name = "chat" /\ pc = "tool_done"
    /\ tool.model = "" /\ tool.env_model = "" /\ tool.api_key
    /\ toolResult.err.kind = "No model specified" /\ trace = <<>>

\* C20: get_default_model(category) is the value of DEFAULT_<CATEGORY>_MODEL
\* for text, image, code, vision and embedding, and None for a variable that
\* is not set and for an unknown category.
C20_DefaultPerCategory ==
    (pc = "op_done" /\ caller = "get_default_model")
    => LET category == tool.args.category
           env == tool.args.env
           own == CASE category = "text" -> "DEFAULT_TEXT_MODEL"
                    [] category = "image" -> "DEFAULT_IMAGE_MODEL"
                    [] category = "code" -> "DEFAULT_CODE_MODEL"
                    [] category = "vision" -> "DEFAULT_VISION_MODEL"
                    [] category = "embedding" -> "DEFAULT_EMBEDDING_MODEL"
                    [] OTHER -> ""
       IN opResult.value = (IF own = "" THEN "" ELSE env[own])

\* the entries of catalog at the indices in keep, in the order of the catalog
Kept(catalog, keep) ==
    [j \in 1..Cardinality(keep) |->
        catalog[CHOOSE i \in keep : Cardinality({k \in keep : k <= i}) = j]]

\* the member named key of entry m holds x
Holds(m, key, x) == key \in DOMAIN m /\ \E k \in DOMAIN m[key] : m[key][k] = x

\* C17: list_models(filter) returns the entries of the catalog, in catalog
\* order, that satisfy the filter: vision = image among the input modalities,
\* image_gen = image among the output modalities, tools = tools among the
\* supported parameters, long_context = context length >= 100000; an entry
\* without the field does not match; no filter and an unknown filter return
\* the whole catalog.
C17_ListModelsFilter ==
    (pc = "op_done" /\ caller = "client.list_models" /\ result.kind = "return"
        /\ result.body.hasData)
    => LET catalog == result.body.data
           capability == tool.args.capability
           keep == {i \in DOMAIN catalog :
                      CASE capability = "vision" ->
                              Holds(catalog[i], "input_modalities", "image")
                        [] capability = "image_gen" ->
                              Holds(catalog[i], "output_modalities", "image")
                        [] capability = "tools" ->
                              Holds(catalog[i], "supported_parameters", "tools")
                        [] capability = "long_context" ->
                              /\ "context_length" \in DOMAIN catalog[i]
                              /\ catalog[i].context_length >= 100000
                        [] OTHER -> TRUE}
       IN /\ opResult.kind = "return"
          /\ opResult.value = Kept(catalog, keep)
          /\ method = "GET" /\ payload = <<>>

C17_Witness ==
    /\ pc = "op_done" /\ caller = "client.list_models"
    /\ tool.args.capability = "long_context"
    /\ result.kind = "return" /\ Len(result.body.data) = 2
    /\ "context_length" \in DOMAIN result.body.data[1]
    /\ result.body.data[1].context_length = 99999
    /\ "context_length" \in DOMAIN result.body.data[2]
    /\ result.body.data[2].context_length = 100000
    /\ opResult.value = <<result.body.data[2]>>

\* every entry of the catalog has a slug and a name
WellFormed(catalog) ==
    \A i \in DOMAIN catalog : {"slug", "name"} \subseteq DOMAIN catalog[i]

\* C18: find_model(term) returns the entries of the whole catalog, in catalog
\* order and all of them, whose slug or name contains the term when both are
\* lowercased; when none matches it returns an empty list and does not raise.
C18_FindModel ==
    (pc = "op_done" /\ caller = "client.find_model" /\ result.kind = "return"
        /\ result.body.hasData /\ WellFormed(result.body.data))
    => LET catalog == result.body.data
           term == Lower(tool.args.search_term)
           keep == {i \in DOMAIN catalog :
                      \/ Contains(Lower(catalog[i].slug), term)
                      \/ Contains(Lower(catalog[i].name), term)}
       IN /\ opResult.kind = "return"
          /\ opResult.value = Kept(catalog, keep)
          /\ keep = {} => opResult.value = <<>>

C18_Witness ==
    /\ pc = "op_done" /\ caller = "client.find_model"
    /\ tool.args.search_term = <<"A", "B">>
    /\ result.kind = "return"
    /\ result.body.data = <<[slug |-> <<"b", "b">>, name |-> <<"A", "B">>],
                            [slug |-> <<"A", "b">>, name |-> <<"b", "b">>]>>
    /\ opResult.value = result.body.data

\* the position in the trace of the request of attempt a (0 when there is none)
RequestAt(a) ==
    IF \E j \in DOMAIN trace : trace[j].ev = "request" /\ trace[j].attempt = a
    THEN CHOOSE j \in DOMAIN trace : trace[j].ev = "request" /\ trace[j].attempt = a
    ELSE 0

\* C23: after a timeout on an attempt that is not the last allowed one the
\* next thing _request does is the next request, with no sleep, and the
\* timeout uses up one attempt of the counter retryable codes use: attempts
\* are numbered 0, 1, 2, ... whatever their outcomes, and there are never
\* more than max_retries of them.
C23_TimeoutRetriesAtOnce ==
    /\ Requests(trace) = Len(outcomes)
    /\ max_retries >= 1 => Requests(trace) <= max_retries
    /\ \A i \in DOMAIN outcomes :
          /\ RequestAt(i - 1) # 0
          /\ \A j \in DOMAIN trace :
                (trace[j].ev = "request" /\ trace[j].attempt = i - 1) => j = RequestAt(i - 1)
          /\ outcomes[i] = "timeout" =>
                /\ \A j \in DOMAIN trace : ~(trace[j].ev = "sleep" /\ trace[j].attempt = i - 1)
                /\ i < max_retries =>
                      /\ i = Len(outcomes) => pc = "attempting" /\ attempt = i
                      /\ RequestAt(i - 1) < Len(trace) =>
                            trace[RequestAt(i - 1) + 1] = RequestEvent(i, method)

C23_Witness ==
    /\ pc = "done" /\ max_retries = 3
    /\ outcomes = <<"timeout", "retryable", "timeout">>
    /\ trace = <<RequestEvent(0, "POST"), RequestEvent(1, "POST"),
                 SleepEvent(1, 4), RequestEvent(2, "POST")>>

\* C25: when every one of the max_retries attempts ends in a timeout or a
\* retryable code, the failure is that of the last attempt alone: 'Request
\* timed out after retries' after a timeout, 'OpenRouter error' with the code
\* and message of the last response after a retryable code.
C25_LastAttemptDecides ==
    (/\ Ended /\ max_retries >= 1 /\ Len(outcomes) = max_retries
     /\ \A i \in DOMAIN outcomes : outcomes[i] \in {"timeout", "retryable"})
    => /\ result.kind = "raise"
       /\ IF Last(outcomes) = "timeout"
          THEN result.err = [kind |-> "Request timed out after retries",
                             code |-> 0, msg |-> ""]
          ELSE LET code == IF resp.body.hasError /\ resp.body.code # NoCode
                           THEN resp.body.code ELSE resp.status
               IN /\ resp.kind = "response"
                  /\ code \in {408, 429, 502, 503}
                  /\ result.err.kind = "OpenRouter error"
                  /\ result.err.code = code
                  /\ result.err.msg =
                        (IF code = 429 THEN "Rate limited - wait before retrying"
                         ELSE IF resp.body.hasError /\ resp.body.message # NoMessage
                         THEN resp.body.message ELSE RawText)

C25_Witness ==
    /\ pc = "done" /\ max_retries = 3
    /\ outcomes = <<"retryable", "retryable", "timeout">>
    /\ prev.kind = "code" /\ prev.code = 503
    /\ result.err.kind = "Request timed out after retries"

\* C24: for max_retries >= 1 a call of _request sends at most max_retries
\* requests whatever the outcomes of its attempts are, and always ends: it
\* returns a body or raises a failure. Each call starts its attempt counter
\* at 0 with nothing left of the call before.
C24_BoundedAndEnds ==
    /\ [](max_retries >= 1 =>
            /\ Requests(trace) <= max_retries
            /\ attempt <= Requests(trace)
            /\ pc = "done" => result.kind \in {"return", "raise"})
    /\ [][(pc = "idle" /\ pc' = "attempting") =>
            (attempt' = 0 /\ trace' = <<>> /\ outcomes' = <<>> /\ result' = Pending)]_vars
    /\ ((pc = "attempting" /\ max_retries >= 1) ~> (pc = "done"))

C24_Witness ==
    /\ pc = "done" /\ caller = "direct" /\ max_retries = 3
    /\ outcomes = <<"timeout", "retryable", "fatal">>
    /\ Requests(trace) = 3 /\ result.kind = "raise"

\* C21: the find_models tool returns the first min(20, n) of the n matches
\* find_model returns, in their order, each with the keys slug, name and
\* context_length only; find_model itself returns all n.
C21_FirstTwenty ==
    (pc = "tool_done" /\ tool.name = "find_models" /\ result.kind = "return"
        /\ result.body.hasData)
    => LET catalog == result.body.data
           term == Lower(tool.args.search_term)
           keep == {i \in DOMAIN catalog :
                      \/ Contains(Lower(catalog[i].slug), term)
                      \/ Contains(Lower(catalog[i].name), term)}
           n == Cardinality(keep)
           all == Kept(catalog, keep)
           out == toolResult.value
       IN /\ opResult.kind = "return" /\ opResult.value = all
          /\ toolResult.kind = "return"
          /\ Len(out) = (IF n < 20 THEN n ELSE 20)
          /\ \A j \in 1..Len(out) :
                /\ DOMAIN out[j] = {"slug", "name", "context_length"}
                /\ out[j].slug = all[j].slug
                /\ out[j].name = all[j].name
                /\ out[j].context_length =
                      (IF "context_length" \in DOMAIN all[j]
                       THEN <<all[j].context_length>> ELSE <<>>)

C21_Witness ==
    /\ pc = "tool_done" /\ tool.name = "find_models" /\ toolResult.kind = "return"
    /\ Len(result.body.data) = 22 /\ Len(opResult.value) = 22
    /\ Len(toolResult.value) = 20
    /\ toolResult.value[20] = [slug |-> <<"a", "b">>, name |-> <<"B">>,
                               context_length |-> <<>>]
    /\ toolResult.value[19].context_length = <<19>>

\* the extension of the file names in use
Extension(name) ==
    IF name \in {"a.png", "a_0.png", "a_1.png", "a_2.png", "a_3.png"} THEN "png" ELSE ""

\* generate_image (client or tool) has returned images and was given a path
Persisted ==
    /\ tool.output_path # NoPath
    /\ \/ ImagesReturned /\ opResult.value # <<>>
       \/ pc = "tool_done" /\ tool.name = "generate_image" /\ toolResult.kind = "return"

\* C22 as stated: every file generate_image writes for a returned image has
\* the MIME subtype of that image's data URL as its extension.
C22_ExtensionFromMime ==
    Persisted
    => \A f \in fs.files :
          \E i \in DOMAIN result.body.images :
             /\ f.data = ExpectedBytes(result.body.images[i].payload)
             /\ Extension(Last(f.path.parts)) =
                   (IF result.body.images[i].mime = "image/png" THEN "png" ELSE "webp")

\* C22: every file generate_image writes has the extension of the output
\* path it was given, whatever the MIME types of the images are; the MIME
\* subtype of the first image is the format the tool reports with the image
\* it returns.
C22_ExtensionFromPath ==
    Persisted
    => /\ fs.files # {}
       /\ \A f \in fs.files :
             Extension(Last(f.path.parts)) = Extension(Last(tool.output_path.parts))
       /\ tool.name = "generate_image" =>
             toolResult.value.format =
                (IF result.body.images[1].mime = "image/png" THEN "png" ELSE "webp")

C22_Witness ==
    /\ pc = "tool_done" /\ tool.name = "generate_image" /\ toolResult.kind = "return"
    /\ tool.output_path = Path(TRUE, <<"out", "a.png">>)
    /\ result.body.images[1].mime = "image/webp"
    /\ toolResult.value.format = "webp"
    /\ fs.files = {File(Path(TRUE, <<"out", "a.png">>), "img")}

\* C26: whenever the generate_image tool of openrouter_mcp/server.py returns
\* 'Generated image saved to P' for the path P it was given, there is a file
\* at P that holds the decoded bytes of one of the returned images, however
\* many images (n >= 1) the response has.
C26_SavedMeansFileAtPath ==
    (/\ pc = "tool_done" /\ tool.name = "openrouter_mcp.generate_image"
     /\ toolResult.kind = "return"
     /\ toolResult.value.text = "Generated image saved to")
    => /\ toolResult.value.path = tool.output_path
       /\ \E f \in fs.files :
             /\ f.path = [root |-> TRUE,
                          parts |-> (IF tool.output_path.root THEN <<>> ELSE <<"cwd">>)
                                       \o tool.output_path.parts]
             /\ \E i \in DOMAIN opResult.value :
                   f.data = ExpectedBytes(opResult.value[i].payload)

====
